---- MODULE Spec2Model ----
(***************************************************************************)
(* The index lifecycle of CreditAgreementChatbot                           *)
(* (src/credit_agreement_chatbot.py): construction (load or build of the   *)
(* vector store), the lazy staleness check, rebuild + save, query and      *)
(* manual refresh, together with the documents directory, the persisted    *)
(* index files and the wall clock they run against.                        *)
(*                                                                         *)
(* A file of the documents directory is abstracted to its identity: a      *)
(* file that parses contributes one entry (its id) to the list of loaded   *)
(* documents and to the content of an index built from that list.          *)
(*                                                                         *)
(* The functions applied to a document's text (_identify_document_type,    *)
(* _extract_section_info, the text splitter of _preprocess_documents and   *)
(* the source citations of query) are modelled on texts, tuples of         *)
(* one-character strings, under the specification SpecText.                *)
(*                                                                         *)
(* SpecCallers runs one constructed instance under calls from two          *)
(* threads, a call being the sequence of its reads and writes of the       *)
(* instance and of the persisted files.                                    *)
(***************************************************************************)
EXTENDS Integers, Sequences, FiniteSets, TLC

\* ---------------------------------------------------------------- bounds
MaxTime == 2        \* the wall clock runs over 0..MaxTime
MaxFiles == 2       \* file ids 1..MaxFiles may appear in the directory
Interval == 1       \* the refresh_interval instances are configured with
MaxWords == 2       \* phrases in a text the document type is taken of
MaxParas == 7       \* paragraphs in a text that is split
MaxPages == 7       \* pages of a file that is indexed and queried
MaxFileLen == 400   \* characters of such a file, over all its pages
MaxBuilds == 3      \* indexes built on one instance called concurrently

\* ------------------------------------------------------ program constants
None == -1          \* self.last_refresh = None
K == 6              \* search_kwargs={"k": 6}

Files == 1 .. MaxFiles
Models == {"sentence-transformers/all-MiniLM-L6-v2"}

VARIABLES
    now,               \* datetime.now()
    docs,              \* documents_directory: the files in it
    persisted,         \* vector_store_path: the files index.faiss, index.pkl
    svc,               \* "down": no instance; "up": a constructed instance
    embedding_model,   \* the instance's embedding model ("" when down)
    refresh_interval,  \* self.refresh_interval (0 when down)
    last_refresh,      \* self.last_refresh
    vector_store,      \* self.vector_store
    qa_chain,          \* self.qa_chain: the index its retriever is bound to
    op,                \* the operation the last step ran
    raised,            \* whether that operation raised to its caller
    attempts,          \* calls of _refresh_documents in that operation
    outcome,           \* how the last such call ended
    response,          \* what query returned
    text,              \* a page_content the text functions are applied to
    result,            \* the function last applied to text, and its value
    calls,             \* each caller's call in progress and where it is
    builds             \* the indexes built, and which one is where

\* The index lifecycle and what its last operation reported.
indexVars == <<now, docs, persisted, svc, embedding_model, refresh_interval,
               last_refresh, vector_store, qa_chain,
               op, raised, attempts, outcome, response>>

vars == <<indexVars, text, result, calls, builds>>

\* ------------------------------------------------------------- helpers
Min(a, b) == IF a < b THEN a ELSE b

RECURSIVE Perms(_)
Perms(S) ==
    IF S = {} THEN {<<>>}
    ELSE UNION {{<<x>> \o p : p \in Perms(S \ {x})} : x \in S}

RECURSIVE Ascending(_)
Ascending(S) ==
    IF S = {} THEN <<>>
    ELSE LET m == CHOOSE x \in S : \A y \in S : x <= y
         IN <<m>> \o Ascending(S \ {m})

Range(s) == {s[i] : i \in 1 .. Len(s)}

\* ------------------------------------------------------- values of state
\* self.vector_store, and the store the retriever of self.qa_chain holds:
\* None, or an index over the list content of documents, embedded with
\* model. intact says that its vectors and its docstore are of one build.
NoStore == [set |-> FALSE, content |-> <<>>, intact |-> TRUE, model |-> ""]

\* The directory vector_store_path: whether index.faiss (the marker) and
\* index.pkl exist, and the index they hold when they are of one build
\* (intact); content is <<>> when they are not.
NoFiles ==
    [faiss |-> FALSE, pkl |-> FALSE, content |-> <<>>, intact |-> TRUE,
     model |-> ""]

NoResponse == [kind |-> "none", sources |-> <<>>]

NoResult == [fn |-> "none"]

\* The threads that may call into one instance.
Callers == {1, 2}

\* No call in progress. A call in progress has its kind, its place (pc),
\* whether _initialize_qa_chain follows its rebuild, the documents it
\* loaded, and the index object its save_local was called on.
NoSaving == [build |-> 0, content |-> <<>>, model |-> ""]

NoCall ==
    [pc |-> "idle", kind |-> "none", rebind |-> FALSE, documents |-> <<>>,
     saving |-> NoSaving]

NoCalls == [c \in Callers |-> NoCall]

\* Index objects are numbered in the order FAISS.from_documents made
\* them: count of them, the one self.vector_store refers to, and the one
\* each file of vector_store_path was last written from (0: none).
NoBuilds == [count |-> 0, memory |-> 0, faiss |-> 0, pkl |-> 0]

\* ----------------------------------------------------------- the loader
FileType(f) == IF f % 2 = 1 THEN ".pdf" ELSE ".docx"

\* Either directory loader raises as soon as one of its files fails to
\* load; bad is the set of files that fail.
LoaderRaises(bad) == bad # {}

BadSets(dir) == {{}} \cup {{f} : f \in dir}

\* The lists _load_documents can return: [] when a loader raised, else the
\* pdf documents (loaded by a thread pool, in completion order) followed by
\* the docx documents (in directory order).
\* Which files failed makes no difference to the result, so the operations
\* below let at most one file fail at a time.
LoadDocuments(dir, bad) ==
    IF LoaderRaises(bad) THEN {<<>>}
    ELSE LET pdfs == {f \in dir : FileType(f) = ".pdf"}
             docxs == {f \in dir : FileType(f) = ".docx"}
         IN {p \o Ascending(docxs) : p \in Perms(pdfs)}

\* ------------------------------------------------------ index build/save
PreprocessDocuments(documents) == documents

\* FAISS.from_documents replaced by add_documents on the index in use.
FromDocumentsAddsToIndex(processed_docs, emb) ==
    [set |-> TRUE, content |-> vector_store.content \o processed_docs,
     intact |-> TRUE, model |-> emb]

FromDocuments(processed_docs, emb) ==
    [set |-> TRUE, content |-> processed_docs, intact |-> TRUE,
     model |-> emb]

\* save_local writes index.faiss, then index.pkl, in place. fail says where
\* it raises: "save_before" any write, "save_mid" between the two files,
\* which leaves the new index.faiss beside the old index.pkl, if any.
SaveLocal(vs, pers, fail) ==
    CASE fail = "save_before" -> pers
      [] fail = "save_mid" ->
            [faiss |-> TRUE, pkl |-> pers.pkl, content |-> <<>>,
             intact |-> FALSE, model |-> vs.model]
      [] OTHER ->
            [faiss |-> TRUE, pkl |-> TRUE, content |-> vs.content,
             intact |-> vs.intact, model |-> vs.model]

\* load_local reads both files (it raises when index.pkl is missing) and
\* checks nothing else: files of two builds load as a store that is not
\* intact.
LoadLocal(pers) ==
    [set |-> TRUE, content |-> pers.content, intact |-> pers.intact,
     model |-> pers.model]

Fails == {"none", "build", "save_before", "save_mid"}

\* _refresh_documents with self.last_refresh assigned before the save.
RefreshDocumentsStampsEarly(emb, bad, documents, fail) ==
    IF documents = <<>> THEN
        [vector_store |-> vector_store, last_refresh |-> last_refresh,
         persisted |-> persisted,
         outcome |-> IF LoaderRaises(bad) THEN "load_error" ELSE "empty",
         raised |-> FALSE]
    ELSE IF fail = "build" THEN
        [vector_store |-> vector_store, last_refresh |-> last_refresh,
         persisted |-> persisted,
         outcome |-> "build_error", raised |-> TRUE]
    ELSE LET new == FromDocuments(PreprocessDocuments(documents), emb)
         IN [vector_store |-> new, last_refresh |-> now,
             persisted |-> SaveLocal(new, persisted, fail),
             outcome |-> IF fail = "none" THEN "ok" ELSE "save_error",
             raised |-> fail # "none"]

\* _refresh_documents without the early return on an empty list.
RefreshDocumentsBuildsEmpty(emb, bad, documents, fail) ==
    IF fail = "build" THEN
        [vector_store |-> vector_store, last_refresh |-> last_refresh,
         persisted |-> persisted,
         outcome |-> "build_error", raised |-> TRUE]
    ELSE LET new == FromDocuments(PreprocessDocuments(documents), emb)
         IN [vector_store |-> new,
             last_refresh |-> IF fail = "none" THEN now ELSE last_refresh,
             persisted |-> SaveLocal(new, persisted, fail),
             outcome |-> IF documents = <<>>
                         THEN (IF LoaderRaises(bad) THEN "load_error"
                               ELSE "empty")
                         ELSE IF fail = "none" THEN "ok" ELSE "save_error",
             raised |-> fail # "none"]

\* _refresh_documents that counts a rebuild with no documents as done.
RefreshDocumentsStampsEmpty(emb, bad, documents, fail) ==
    IF documents = <<>> THEN
        [vector_store |-> vector_store, last_refresh |-> now,
         persisted |-> persisted,
         outcome |-> IF LoaderRaises(bad) THEN "load_error" ELSE "empty",
         raised |-> FALSE]
    ELSE IF fail = "build" THEN
        [vector_store |-> vector_store, last_refresh |-> last_refresh,
         persisted |-> persisted,
         outcome |-> "build_error", raised |-> TRUE]
    ELSE LET new == FromDocuments(PreprocessDocuments(documents), emb)
         IN IF fail \in {"save_before", "save_mid"} THEN
                [vector_store |-> new, last_refresh |-> last_refresh,
                 persisted |-> SaveLocal(new, persisted, fail),
                 outcome |-> "save_error", raised |-> TRUE]
            ELSE
                [vector_store |-> new, last_refresh |-> now,
                 persisted |-> SaveLocal(new, persisted, "none"),
                 outcome |-> "ok", raised |-> FALSE]

\* _refresh_documents of an instance configured with embedding model emb,
\* given the files that fail to load, the list the loader returned and the
\* place (if any) where the build raises. The clock advances between
\* operations, not within one.
RefreshDocuments(emb, bad, documents, fail) ==
    IF documents = <<>> THEN
        [vector_store |-> vector_store, last_refresh |-> last_refresh,
         persisted |-> persisted,
         outcome |-> IF LoaderRaises(bad) THEN "load_error" ELSE "empty",
         raised |-> FALSE]
    ELSE IF fail = "build" THEN
        [vector_store |-> vector_store, last_refresh |-> last_refresh,
         persisted |-> persisted,
         outcome |-> "build_error", raised |-> TRUE]
    ELSE LET new == FromDocuments(PreprocessDocuments(documents), emb)
         IN IF fail \in {"save_before", "save_mid"} THEN
                [vector_store |-> new, last_refresh |-> last_refresh,
                 persisted |-> SaveLocal(new, persisted, fail),
                 outcome |-> "save_error", raised |-> TRUE]
            ELSE
                [vector_store |-> new, last_refresh |-> now,
                 persisted |-> SaveLocal(new, persisted, "none"),
                 outcome |-> "ok", raised |-> FALSE]

\* _initialize_qa_chain that builds the chain over whatever
\* self.vector_store holds, None included.
InitializeQaChainUnchecked(r, n) ==
    r @@ [qa_chain |-> r.vector_store, attempts |-> n]

\* _initialize_qa_chain binds the retriever to self.vector_store; with
\* self.vector_store = None the attribute access raises. r is the result
\* of the steps before it, n the number of rebuild attempts among them.
InitializeQaChain(r, n) ==
    IF r.vector_store.set
    THEN r @@ [qa_chain |-> r.vector_store, attempts |-> n]
    ELSE [r EXCEPT !.raised = TRUE] @@ [qa_chain |-> qa_chain, attempts |-> n]

\* What a step that raised leaves behind: the qa_chain is not rebuilt.
Propagate(r, n) == r @@ [qa_chain |-> qa_chain, attempts |-> n]

\* _initialize_vector_store without the fallback to a rebuild when the
\* load raises.
InitializeVectorStoreNoFallback(emb, bad, documents, fail, loadRaises) ==
    IF persisted.faiss THEN
        IF persisted.pkl /\ ~loadRaises THEN
            InitializeQaChain(
                [vector_store |-> LoadLocal(persisted),
                 last_refresh |-> now, persisted |-> persisted,
                 outcome |-> "none", raised |-> FALSE], 0)
        ELSE Propagate(
                [vector_store |-> vector_store,
                 last_refresh |-> last_refresh, persisted |-> persisted,
                 outcome |-> "none", raised |-> TRUE], 0)
    ELSE LET r == RefreshDocuments(emb, bad, documents, fail)
         IN IF r.raised THEN Propagate(r, 1) ELSE InitializeQaChain(r, 1)

\* _initialize_vector_store (the part of __init__ that can fail).
InitializeVectorStore(emb, bad, documents, fail, loadRaises) ==
    IF persisted.faiss THEN
        IF persisted.pkl /\ ~loadRaises THEN
            InitializeQaChain(
                [vector_store |-> LoadLocal(persisted),
                 last_refresh |-> now, persisted |-> persisted,
                 outcome |-> "none", raised |-> FALSE], 0)
        ELSE LET r == RefreshDocuments(emb, bad, documents, fail)
             IN IF r.raised THEN Propagate(r, 1) ELSE InitializeQaChain(r, 1)
    ELSE LET r == RefreshDocuments(emb, bad, documents, fail)
         IN IF r.raised THEN Propagate(r, 1) ELSE InitializeQaChain(r, 1)

\* _check_and_refresh without the _initialize_qa_chain after the rebuild.
CheckAndRefreshNoRebind(bad, documents, fail) ==
    IF last_refresh = None THEN
        Propagate(RefreshDocuments(embedding_model, bad, documents, fail), 1)
    ELSE IF now - last_refresh >= refresh_interval THEN
        Propagate(RefreshDocuments(embedding_model, bad, documents, fail), 1)
    ELSE
        [vector_store |-> vector_store, last_refresh |-> last_refresh,
         persisted |-> persisted, outcome |-> "none", raised |-> FALSE,
         qa_chain |-> qa_chain, attempts |-> 0]

\* _check_and_refresh that takes any index with a last_refresh for Stale.
CheckAndRefreshAlwaysStale(bad, documents, fail) ==
    IF last_refresh = None THEN
        Propagate(RefreshDocuments(embedding_model, bad, documents, fail), 1)
    ELSE
        LET r == RefreshDocuments(embedding_model, bad, documents, fail)
        IN IF r.raised THEN Propagate(r, 1) ELSE InitializeQaChain(r, 1)

\* _check_and_refresh, whose clock reading is now.
CheckAndRefresh(bad, documents, fail) ==
    IF last_refresh = None THEN
        Propagate(RefreshDocuments(embedding_model, bad, documents, fail), 1)
    ELSE IF now - last_refresh >= refresh_interval THEN
        LET r == RefreshDocuments(embedding_model, bad, documents, fail)
        IN IF r.raised THEN Propagate(r, 1) ELSE InitializeQaChain(r, 1)
    ELSE
        [vector_store |-> vector_store, last_refresh |-> last_refresh,
         persisted |-> persisted, outcome |-> "none", raised |-> FALSE,
         qa_chain |-> qa_chain, attempts |-> 0]

\* A retriever that returns every chunk of the index.
RetrieveAll(store) == store.content

\* The retriever's top-k chunks. The similarity ranking belongs to the
\* embedding model; it is taken here as the index order.
Retrieve(store) == SubSeq(store.content, 1, Min(K, Len(store.content)))

\* The try/except of query around the chain call: qa is the store of the
\* chain in use. A search of a store that is not intact looks its hits up
\* in a docstore of another build; that lookup is taken to fail.
QueryResponse(qa, chainRaises) ==
    IF chainRaises \/ ~qa.intact
    THEN [kind |-> "error", sources |-> <<>>]
    ELSE [kind |-> "ok", sources |-> Retrieve(qa)]

\* manual_refresh that rebuilds only when the staleness check asks for it.
ManualRefreshIfStale(bad, documents, fail) ==
    CheckAndRefresh(bad, documents, fail)

\* manual_refresh
ManualRefreshResult(bad, documents, fail) ==
    LET r == RefreshDocuments(embedding_model, bad, documents, fail)
    IN IF r.raised THEN Propagate(r, 1) ELSE InitializeQaChain(r, 1)

\* ------------------------------------------------------------- the state
InitIndex ==
    /\ now = 0
    /\ docs = {}
    /\ persisted = NoFiles
    /\ svc = "down"
    /\ embedding_model = ""
    /\ refresh_interval = 0
    /\ last_refresh = None
    /\ vector_store = NoStore
    /\ qa_chain = NoStore
    /\ op = "env"
    /\ raised = FALSE
    /\ attempts = 0
    /\ outcome = "none"
    /\ response = NoResponse

\* The lifecycle runs with no text under consideration.
Init ==
    /\ InitIndex
    /\ text = <<>>
    /\ result = NoResult
    /\ calls = NoCalls
    /\ builds = NoBuilds

Quiet ==
    /\ op' = "env"
    /\ raised' = FALSE
    /\ attempts' = 0
    /\ outcome' = "none"
    /\ response' = NoResponse

\* How a handler's result r becomes the next state of a running instance.
Install(r) ==
    /\ vector_store' = r.vector_store
    /\ last_refresh' = r.last_refresh
    /\ persisted' = r.persisted
    /\ qa_chain' = r.qa_chain
    /\ raised' = r.raised
    /\ attempts' = r.attempts
    /\ outcome' = r.outcome

\* ------------------------------------------------------------ operations
\* CreditAgreementChatbot(...): when __init__ raises, no instance exists
\* afterwards; what it wrote to the persisted index stays.
Construct(emb, interval, bad, documents, fail, loadRaises) ==
    /\ svc = "down"
    /\ LET r == InitializeVectorStore(emb, bad, documents, fail,
                                      loadRaises)
       IN /\ (r.attempts = 0 => bad = {})
          /\ (r.outcome \in {"none", "empty", "load_error"} => fail = "none")
          /\ (loadRaises => persisted.faiss /\ persisted.pkl)
          /\ persisted' = r.persisted
          /\ raised' = r.raised
          /\ attempts' = r.attempts
          /\ outcome' = r.outcome
          /\ IF r.raised
             THEN /\ svc' = "down"
                  /\ UNCHANGED <<embedding_model, refresh_interval,
                                 last_refresh, vector_store, qa_chain>>
             ELSE /\ svc' = "up"
                  /\ embedding_model' = emb
                  /\ refresh_interval' = interval
                  /\ last_refresh' = r.last_refresh
                  /\ vector_store' = r.vector_store
                  /\ qa_chain' = r.qa_chain
    /\ op' = "init"
    /\ response' = NoResponse
    /\ UNCHANGED <<now, docs, text, result, calls, builds>>

\* query(question)
Query(bad, documents, fail, chainRaises) ==
    /\ svc = "up"
    /\ LET r == CheckAndRefresh(bad, documents, fail)
       IN /\ (r.attempts = 0 => bad = {})
          /\ (r.outcome \in {"none", "empty", "load_error"} => fail = "none")
          /\ (r.raised => ~chainRaises)
          /\ Install(r)
          /\ response' = IF r.raised THEN NoResponse
                         ELSE QueryResponse(r.qa_chain, chainRaises)
    /\ op' = "query"
    /\ UNCHANGED <<now, docs, svc, embedding_model, refresh_interval,
                   text, result, calls, builds>>

\* manual_refresh()
ManualRefresh(bad, documents, fail) ==
    /\ svc = "up"
    /\ LET r == ManualRefreshResult(bad, documents, fail)
       IN /\ (r.outcome \in {"empty", "load_error"} => fail = "none")
          /\ Install(r)
    /\ op' = "manual_refresh"
    /\ response' = NoResponse
    /\ UNCHANGED <<now, docs, svc, embedding_model, refresh_interval,
                   text, result, calls, builds>>

\* The process ends: the instance and its in-memory index are gone.
Exit ==
    /\ svc = "up"
    /\ svc' = "down"
    /\ embedding_model' = ""
    /\ refresh_interval' = 0
    /\ last_refresh' = None
    /\ vector_store' = NoStore
    /\ qa_chain' = NoStore
    /\ Quiet
    /\ UNCHANGED <<now, docs, persisted, text, result, calls, builds>>

\* ----------------------------------------------------------- environment
\* The clock, as a running instance reads it.
Tick ==
    /\ svc = "up"
    /\ now < MaxTime
    /\ now' = now + 1
    /\ Quiet
    /\ UNCHANGED <<docs, persisted, svc, embedding_model, refresh_interval,
                   last_refresh, vector_store, qa_chain, text, result,
                   calls, builds>>

\* Someone adds a file to the documents directory, or removes one.
ChangeDocs(f) ==
    /\ docs' = IF f \in docs THEN docs \ {f} ELSE docs \cup {f}
    /\ Quiet
    /\ UNCHANGED <<now, persisted, svc, embedding_model, refresh_interval,
                   last_refresh, vector_store, qa_chain, text, result,
                   calls, builds>>

\* Where a rebuild can raise: the build is not reached with no documents.
FailsOf(documents) == IF documents = <<>> THEN {"none"} ELSE Fails

DoConstruct ==
    \E emb \in Models, interval \in {Interval}, loadRaises \in BOOLEAN,
       bad \in BadSets(docs) :
        \E documents \in LoadDocuments(docs, bad) :
            \E fail \in FailsOf(documents) :
                Construct(emb, interval, bad, documents, fail, loadRaises)

DoQuery ==
    \E chainRaises \in BOOLEAN, bad \in BadSets(docs) :
        \E documents \in LoadDocuments(docs, bad) :
            \E fail \in FailsOf(documents) :
                Query(bad, documents, fail, chainRaises)

DoManualRefresh ==
    \E bad \in BadSets(docs) :
        \E documents \in LoadDocuments(docs, bad) :
            \E fail \in FailsOf(documents) :
                ManualRefresh(bad, documents, fail)

DoChangeDocs == \E f \in Files : ChangeDocs(f)

Next ==
    \/ DoConstruct
    \/ DoQuery
    \/ DoManualRefresh
    \/ Exit
    \/ Tick
    \/ DoChangeDocs

Spec == Init /\ [][Next]_vars

\* ------------------------------------------- runs with other configurations
\* embedding_model is a constructor argument: one run of the program may
\* be configured with another model than the run that wrote the persisted
\* index.
EmbeddingModels == Models \cup {"sentence-transformers/all-mpnet-base-v2"}

DoConstructAnyModel ==
    \E emb \in EmbeddingModels, interval \in {Interval},
       loadRaises \in BOOLEAN, bad \in BadSets(docs) :
        \E documents \in LoadDocuments(docs, bad) :
            \E fail \in FailsOf(documents) :
                Construct(emb, interval, bad, documents, fail, loadRaises)

NextModels ==
    \/ DoConstructAnyModel
    \/ DoQuery
    \/ DoManualRefresh
    \/ Exit
    \/ Tick
    \/ DoChangeDocs

SpecModels == Init /\ [][NextModels]_vars

\* The directory holds .pdf files only: the files the thread pool loads.
PdfFiles == {f \in 1 .. 2 * MaxFiles : FileType(f) = ".pdf"}

DoChangePdfs == \E f \in PdfFiles : ChangeDocs(f)

NextPdfs ==
    \/ DoConstruct
    \/ DoQuery
    \/ DoManualRefresh
    \/ Exit
    \/ Tick
    \/ DoChangePdfs

SpecPdfs == Init /\ [][NextPdfs]_vars

\* --------------------------------------------------- concurrent callers
\* One instance called from several threads. The class takes no lock, so
\* a call is a sequence of steps, one for each statement that reads or
\* writes the instance or the persisted files, and the steps of the
\* callers interleave. No step raises here.
\* An instance constructed over a directory with documents.
InitCallers ==
    /\ now = 0
    /\ docs \in (SUBSET Files) \ {{}}
    /\ svc = "up"
    /\ embedding_model \in Models
    /\ refresh_interval = Interval
    /\ last_refresh = 0
    /\ \E documents \in LoadDocuments(docs, {}) :
          vector_store = FromDocuments(PreprocessDocuments(documents),
                                       embedding_model)
    /\ qa_chain = vector_store
    /\ persisted = SaveLocal(vector_store, NoFiles, "none")
    /\ op = "init"
    /\ raised = FALSE
    /\ attempts = 1
    /\ outcome = "ok"
    /\ response = NoResponse
    /\ text = <<>>
    /\ result = NoResult
    /\ calls = NoCalls
    /\ builds = [count |-> 1, memory |-> 1, faiss |-> 1, pkl |-> 1]

\* What no step of a call changes.
callFrame == <<now, docs, svc, embedding_model, refresh_interval,
               op, raised, attempts, outcome, text, result>>

\* Where a call goes on after _refresh_documents returned.
AfterRefresh(call) == IF call.rebind THEN "rebind" ELSE "search"

\* The files of vector_store_path after a write: they hold an index when
\* both were written from one index object.
PersistedFiles(b, pkl, content, model) ==
    [faiss |-> TRUE, pkl |-> pkl,
     content |-> IF b.faiss = b.pkl THEN content ELSE <<>>,
     intact |-> b.faiss = b.pkl,
     model |-> model]

\* A thread calls query(question) or manual_refresh().
Call(c, kind) ==
    /\ calls[c].pc = "idle"
    /\ calls' = [calls EXCEPT
                    ![c] = [NoCall EXCEPT
                               !.kind = kind,
                               !.pc = IF kind = "query" THEN "check"
                                      ELSE "load",
                               !.rebind = TRUE]]
    /\ UNCHANGED <<callFrame, vector_store, persisted, last_refresh,
                   qa_chain, response, builds>>

\* _check_and_refresh: the reads of self.last_refresh and of the clock.
Check(c) ==
    /\ calls[c].pc = "check"
    /\ calls' = [calls EXCEPT
                    ![c].pc = IF \/ last_refresh = None
                                 \/ now - last_refresh >= refresh_interval
                              THEN "load" ELSE "search",
                    ![c].rebind = (last_refresh # None)]
    /\ UNCHANGED <<callFrame, vector_store, persisted, last_refresh,
                   qa_chain, response, builds>>

\* _refresh_documents: documents = self._load_documents(), and the return
\* when there are none.
Load(c, documents) ==
    /\ calls[c].pc = "load"
    /\ calls' = [calls EXCEPT
                    ![c].documents = documents,
                    ![c].pc = IF documents = <<>>
                              THEN AfterRefresh(calls[c]) ELSE "build"]
    /\ UNCHANGED <<callFrame, vector_store, persisted, last_refresh,
                   qa_chain, response, builds>>

\* self.vector_store = FAISS.from_documents(processed_docs, ...)
Build(c) ==
    /\ calls[c].pc = "build"
    /\ builds.count < MaxBuilds
    /\ vector_store' = FromDocuments(PreprocessDocuments(calls[c].documents),
                                     embedding_model)
    /\ builds' = [builds EXCEPT !.count = builds.count + 1,
                                !.memory = builds.count + 1]
    /\ calls' = [calls EXCEPT ![c].documents = <<>>,
                              ![c].pc = "save_faiss"]
    /\ UNCHANGED <<callFrame, persisted, last_refresh, qa_chain, response>>

\* self.vector_store.save_local(...): the read of self.vector_store, and
\* the write of index.faiss from that object.
SaveFaiss(c) ==
    /\ calls[c].pc = "save_faiss"
    /\ calls' = [calls EXCEPT
                    ![c].saving = [build |-> builds.memory,
                                   content |-> vector_store.content,
                                   model |-> vector_store.model],
                    ![c].pc = "save_pkl"]
    /\ builds' = [builds EXCEPT !.faiss = builds.memory]
    /\ persisted' = PersistedFiles(builds', persisted.pkl,
                                   vector_store.content, vector_store.model)
    /\ UNCHANGED <<callFrame, vector_store, last_refresh, qa_chain,
                   response>>

\* save_local, continued: the write of index.pkl from the same object.
SavePkl(c) ==
    /\ calls[c].pc = "save_pkl"
    /\ calls' = [calls EXCEPT ![c].saving = NoSaving, ![c].pc = "stamp"]
    /\ builds' = [builds EXCEPT !.pkl = calls[c].saving.build]
    /\ persisted' = PersistedFiles(builds', TRUE, calls[c].saving.content,
                                   persisted.model)
    /\ UNCHANGED <<callFrame, vector_store, last_refresh, qa_chain,
                   response>>

\* self.last_refresh = datetime.now()
Stamp(c) ==
    /\ calls[c].pc = "stamp"
    /\ last_refresh' = now
    /\ calls' = [calls EXCEPT ![c].pc = AfterRefresh(calls[c])]
    /\ UNCHANGED <<callFrame, vector_store, persisted, qa_chain, response,
                   builds>>

\* self._initialize_qa_chain(): the retriever is made of the index that
\* self.vector_store refers to at this moment; manual_refresh returns.
Rebind(c) ==
    /\ calls[c].pc = "rebind"
    /\ qa_chain' = vector_store
    /\ calls' = [calls EXCEPT
                    ![c] = IF calls[c].kind = "query"
                           THEN [calls[c] EXCEPT !.pc = "search"]
                           ELSE NoCall]
    /\ UNCHANGED <<callFrame, vector_store, persisted, last_refresh,
                   response, builds>>

\* result = self.qa_chain({"query": question}), and query returns.
RunChain(c, chainRaises) ==
    /\ calls[c].pc = "search"
    /\ response' = QueryResponse(qa_chain, chainRaises)
    /\ calls' = [calls EXCEPT ![c] = NoCall]
    /\ UNCHANGED <<callFrame, vector_store, persisted, last_refresh,
                   qa_chain, builds>>

DoCall ==
    \E c \in Callers, kind \in {"query", "manual_refresh"} : Call(c, kind)

DoCheck == \E c \in Callers : Check(c)

DoLoad ==
    \E c \in Callers, bad \in BadSets(docs) :
        \E documents \in LoadDocuments(docs, bad) : Load(c, documents)

DoBuild == \E c \in Callers : Build(c)

DoSaveFaiss == \E c \in Callers : SaveFaiss(c)

DoSavePkl == \E c \in Callers : SavePkl(c)

DoStamp == \E c \in Callers : Stamp(c)

DoRebind == \E c \in Callers : Rebind(c)

DoRunChain ==
    \E c \in Callers, chainRaises \in BOOLEAN : RunChain(c, chainRaises)

NextCallers ==
    \/ DoCall
    \/ DoCheck
    \/ DoLoad
    \/ DoBuild
    \/ DoSaveFaiss
    \/ DoSavePkl
    \/ DoStamp
    \/ DoRebind
    \/ DoRunChain
    \/ Tick
    \/ DoChangeDocs

SpecCallers == InitCallers /\ [][NextCallers]_vars

\* ------------------------------------------------------------------ text
\* A text is a sequence of characters (strings of length one).
UpperCase == <<"A", "B", "C", "D", "E", "F", "G", "H", "I", "J", "K", "L",
    "M", "N", "O", "P", "Q", "R", "S", "T", "U", "V", "W", "X", "Y", "Z">>
LowerCase == <<"a", "b", "c", "d", "e", "f", "g", "h", "i", "j", "k", "l",
    "m", "n", "o", "p", "q", "r", "s", "t", "u", "v", "w", "x", "y", "z">>
Whitespace == {" ", "\n", "\t"}
DigitChars == {"0", "1", "2", "3", "4", "5", "6", "7", "8", "9"}
RomanChars == {"I", "V", "X", "L", "C", "D", "M"}

\* str.lower(), on the characters texts are made of here
ToLowerChar(c) ==
    IF \E i \in 1 .. Len(UpperCase) : UpperCase[i] = c
    THEN LowerCase[CHOOSE i \in 1 .. Len(UpperCase) : UpperCase[i] = c]
    ELSE c

Lower(t) == <<>> \o [i \in 1 .. Len(t) |-> ToLowerChar(t[i])]

\* w occurs in t at position i
StartsAt(t, i, w) ==
    /\ i >= 1
    /\ i + Len(w) - 1 <= Len(t)
    /\ \A j \in 1 .. Len(w) : t[i + j - 1] = w[j]

\* w in t
Occurs(w, t) == \E i \in 1 .. Len(t) : StartsAt(t, i, w)

\* t[:n]
Prefix(t, n) == SubSeq(t, 1, Min(n, Len(t)))

RECURSIVE Join(_, _)
Join(parts, sep) ==
    IF parts = <<>> THEN <<>>
    ELSE IF Len(parts) = 1 THEN parts[1]
    ELSE parts[1] \o sep \o Join(Tail(parts), sep)

\* ---------------------------------------------------- document type
\* The phrases _identify_document_type looks for.
ComplianceCertificatePhrase == <<"c", "o", "m", "p", "l", "i", "a", "n", "c",
    "e", " ", "c", "e", "r", "t", "i", "f", "i", "c", "a", "t", "e">>
CreditAgreementPhrase == <<"c", "r", "e", "d", "i", "t", " ", "a", "g", "r",
    "e", "e", "m", "e", "n", "t">>
LoanAgreementPhrase == <<"l", "o", "a", "n", " ", "a", "g", "r", "e", "e",
    "m", "e", "n", "t">>
CreditApplicationPhrase == <<"c", "r", "e", "d", "i", "t", " ", "a", "p",
    "p", "l", "i", "c", "a", "t", "i", "o", "n">>
LstaPhrase == <<"l", "s", "t", "a">>

\* _identify_document_type that compares without lower().
IdentifyDocumentTypeCaseSensitive(t) ==
    IF Occurs(ComplianceCertificatePhrase, t)
    THEN "Compliance Certificate"
    ELSE IF \/ Occurs(CreditAgreementPhrase, t)
            \/ Occurs(LoanAgreementPhrase, t)
    THEN "Credit Agreement"
    ELSE IF Occurs(CreditApplicationPhrase, t)
    THEN "Credit Application"
    ELSE IF Occurs(LstaPhrase, t)
    THEN "LSTA Agreement"
    ELSE "Credit Document"

\* _identify_document_type
IdentifyDocumentType(t) ==
    LET text_lower == Lower(t)
    IN IF Occurs(ComplianceCertificatePhrase, text_lower)
       THEN "Compliance Certificate"
       ELSE IF \/ Occurs(CreditAgreementPhrase, text_lower)
               \/ Occurs(LoanAgreementPhrase, text_lower)
       THEN "Credit Agreement"
       ELSE IF Occurs(CreditApplicationPhrase, text_lower)
       THEN "Credit Application"
       ELSE IF Occurs(LstaPhrase, text_lower)
       THEN "LSTA Agreement"
       ELSE "Credit Document"

\* ----------------------------------------------------------- section info
SectionScan == 500       \* text[:500]

\* patterns: the keyword, \s+, and the group that follows
Patterns ==
    <<[keyword |-> <<"S", "E", "C", "T", "I", "O", "N">>,
        number |-> "decimal"],
      [keyword |-> <<"S", "e", "c", "t", "i", "o", "n">>,
          number |-> "decimal"],
      [keyword |-> <<"A", "R", "T", "I", "C", "L", "E">>,
          number |-> "roman_or_digits"],
      [keyword |-> <<"A", "r", "t", "i", "c", "l", "e">>,
          number |-> "roman_or_digits"]>>

NoMatch == [some |-> FALSE, text |-> <<>>]

\* Where the longest run of characters of class that starts at i ends
\* (i - 1 when t[i] is not of the class): a greedy + or *.
RunEnd(t, i, class) ==
    (CHOOSE j \in i .. Len(t) + 1 :
        /\ \A k \in i .. j - 1 : t[k] \in class
        /\ (j = Len(t) + 1 \/ t[j] \notin class)) - 1

\* Where the match of pattern p that starts at i ends; 0 when p does not
\* match at i.
MatchEnd(t, i, p) ==
    LET k == i + Len(p.keyword)
        w == RunEnd(t, k, Whitespace)
        d == RunEnd(t, w + 1, DigitChars)
        r == RunEnd(t, w + 1, RomanChars)
    IN IF ~StartsAt(t, i, p.keyword) \/ w < k THEN 0
       ELSE IF p.number = "decimal" THEN
           \* \d+\.?\d*
           IF d < w + 1 THEN 0
           ELSE LET dot == IF d + 1 <= Len(t) /\ t[d + 1] = "."
                           THEN d + 1 ELSE d
                IN RunEnd(t, dot + 1, DigitChars)
       ELSE
           \* [IVXLCDM]+|\d+
           IF r >= w + 1 THEN r
           ELSE IF d >= w + 1 THEN d
           ELSE 0

\* re.search(pattern, t): the leftmost match, match.group(0)
Search(p, t) ==
    LET starts == {i \in 1 .. Len(t) : StartsAt(t, i, p.keyword)}
        hits == {i \in starts : MatchEnd(t, i, p) > 0}
    IN IF hits = {} THEN NoMatch
       ELSE LET i == CHOOSE h \in hits : \A g \in hits : h <= g
            IN [some |-> TRUE, text |-> SubSeq(t, i, MatchEnd(t, i, p))]

\* The loop over patterns: the first pattern with a match decides.
RECURSIVE FirstMatch(_, _)
FirstMatch(patterns, t) ==
    IF patterns = <<>> THEN NoMatch
    ELSE LET match == Search(Head(patterns), t)
         IN IF match.some THEN match ELSE FirstMatch(Tail(patterns), t)

\* _extract_section_info that searches the whole text.
ExtractSectionInfoWholeText(t) == FirstMatch(Patterns, t)

\* _extract_section_info
ExtractSectionInfo(t) == FirstMatch(Patterns, Prefix(t, SectionScan))

\* ------------------------------------------------------- text splitter
ChunkSize == 1200        \* chunk_size=1200
ChunkOverlap == 200      \* chunk_overlap=200

Separators ==
    <<<<"\n", "\n">>, <<"\n">>, <<"S", "E", "C", "T", "I", "O", "N">>, <<"S",
        "e", "c", "t", "i", "o", "n">>, <<"A", "R", "T", "I", "C", "L",
        "E">>, <<"A", "r", "t", "i", "c", "l", "e">>,
      <<".", " ">>, <<" ">>, <<>>>>

\* str.strip()
Strip(t) ==
    LET first == RunEnd(t, 1, Whitespace) + 1
    IN IF first > Len(t) THEN <<>>
       ELSE LET last == CHOOSE i \in first .. Len(t) :
                            /\ t[i] \notin Whitespace
                            /\ \A k \in i + 1 .. Len(t) : t[k] \in Whitespace
            IN SubSeq(t, first, last)

\* The first occurrence of sep in t at or after position from; 0 if none.
NextOccurrence(t, sep, from) ==
    IF \E i \in from .. Len(t) : StartsAt(t, i, sep)
    THEN CHOOSE i \in from .. Len(t) :
            /\ StartsAt(t, i, sep)
            /\ \A k \in from .. i - 1 : ~StartsAt(t, k, sep)
    ELSE 0

\* re.split on the separator, each separator kept at the head of the piece
\* that follows it: the pieces of t from start on, the next separator
\* being looked for from scan on.
RECURSIVE SplitFrom(_, _, _, _)
SplitFrom(t, sep, start, scan) ==
    LET n == NextOccurrence(t, sep, scan)
    IN IF n = 0 THEN <<SubSeq(t, start, Len(t))>>
       ELSE <<SubSeq(t, start, n - 1)>> \o SplitFrom(t, sep, n, n + Len(sep))

\* _split_text_with_regex(text, separator, keep_separator=True)
SplitTextWithRegex(t, sep) ==
    LET splits == IF sep = <<>> THEN [i \in 1 .. Len(t) |-> <<t[i]>>]
                  ELSE SplitFrom(t, sep, 1, 1)
    IN SelectSeq(splits, LAMBDA s : s # <<>>)

\* _join_docs: None (here the empty text) when nothing but whitespace
JoinDocs(parts, sep) == Strip(Join(parts, sep))

\* The while loop of _merge_splits: drop pieces from the front of
\* current_doc until what is left fits the overlap and leaves room for a
\* piece of length len.
RECURSIVE PopFront(_, _, _, _)
PopFront(current_doc, total, len, sepLen) ==
    IF \/ total > ChunkOverlap
       \/ (/\ total + len + (IF Len(current_doc) > 0 THEN sepLen ELSE 0)
                > ChunkSize
           /\ total > 0)
    THEN PopFront(Tail(current_doc),
                  total - (Len(current_doc[1])
                           + (IF Len(current_doc) > 1 THEN sepLen ELSE 0)),
                  len, sepLen)
    ELSE [current_doc |-> current_doc, total |-> total]

\* The for loop of _merge_splits and what follows it.
RECURSIVE MergeFrom(_, _, _, _, _)
MergeFrom(splits, sep, merged, current_doc, total) ==
    IF splits = <<>> THEN
        LET doc == JoinDocs(current_doc, sep)
        IN IF doc # <<>> THEN Append(merged, doc) ELSE merged
    ELSE
        LET d == Head(splits)
            len == Len(d)
            sepLen == Len(sep)
            full == total + len
                        + (IF Len(current_doc) > 0 THEN sepLen ELSE 0)
                    > ChunkSize
            flush == full /\ Len(current_doc) > 0
            doc == JoinDocs(current_doc, sep)
            kept == IF flush THEN PopFront(current_doc, total, len, sepLen)
                    ELSE [current_doc |-> current_doc, total |-> total]
            next_doc == Append(kept.current_doc, d)
        IN MergeFrom(Tail(splits), sep,
                     IF flush /\ doc # <<>> THEN Append(merged, doc)
                     ELSE merged,
                     next_doc,
                     kept.total + len
                        + (IF Len(next_doc) > 1 THEN sepLen ELSE 0))

\* _merge_splits(splits, separator)
MergeSplits(splits, sep) == MergeFrom(splits, sep, <<>>, <<>>, 0)

\* RecursiveCharacterTextSplitter._split_text(text, separators): the
\* first separator that occurs in the text splits it; pieces below the
\* chunk size are merged, longer ones are split by the separators that
\* follow, and kept whole when none follows.
RECURSIVE SplitText(_, _)
RECURSIVE Collect(_, _, _, _)
Collect(splits, new_separators, good_splits, final_chunks) ==
    LET merged == IF good_splits # <<>>
                  THEN final_chunks \o MergeSplits(good_splits, <<>>)
                  ELSE final_chunks
    IN IF splits = <<>> THEN merged
       ELSE LET s == Head(splits)
            IN IF Len(s) < ChunkSize
               THEN Collect(Tail(splits), new_separators,
                            Append(good_splits, s), final_chunks)
               ELSE Collect(Tail(splits), new_separators, <<>>,
                            merged \o (IF new_separators = <<>> THEN <<s>>
                                       ELSE SplitText(s, new_separators)))

SplitText(t, separators) ==
    LET found == {i \in 1 .. Len(separators) :
                     separators[i] = <<>> \/ Occurs(separators[i], t)}
        i == IF found = {} THEN Len(separators)
             ELSE CHOOSE f \in found : \A g \in found : f <= g
        separator == separators[i]
        new_separators ==
            IF found = {} \/ separator = <<>> THEN <<>>
            ELSE SubSeq(separators, i + 1, Len(separators))
    IN Collect(SplitTextWithRegex(t, separator), new_separators, <<>>, <<>>)

\* ------------------------------------------------------------ chunking
\* A loaded document: its text and the page the loader took it from.
Document(t, page) ==
    [page_content |-> t, filename |-> "agreement.pdf", page |-> page]

\* The chunks of one document, each typed by its own text.
ChunksOfTypedByChunk(doc) ==
    LET chunks == SplitText(doc.page_content, Separators)
    IN [i \in 1 .. Len(chunks) |->
           [page_content |-> chunks[i],
            filename |-> doc.filename,
            page |-> doc.page,
            document_type |-> IdentifyDocumentType(chunks[i]),
            chunk_id |-> i - 1,
            total_chunks |-> Len(chunks),
            section |-> ExtractSectionInfo(chunks[i])]]

\* The chunks of one document, with the metadata _preprocess_documents
\* gives them.
ChunksOf(doc) ==
    LET doc_type == IdentifyDocumentType(doc.page_content)
        chunks == SplitText(doc.page_content, Separators)
    IN [i \in 1 .. Len(chunks) |->
           [page_content |-> chunks[i],
            filename |-> doc.filename,
            page |-> doc.page,
            document_type |-> doc_type,
            chunk_id |-> i - 1,
            total_chunks |-> Len(chunks),
            section |-> ExtractSectionInfo(chunks[i])]]

\* _preprocess_documents, on documents with their text
RECURSIVE PreprocessDocumentTexts(_)
PreprocessDocumentTexts(documents) ==
    IF documents = <<>> THEN <<>>
    ELSE ChunksOf(Head(documents))
            \o PreprocessDocumentTexts(Tail(documents))

\* ------------------------------------------------------------- citations
PreviewLength == 200     \* doc.page_content[:200]

Ellipsis == <<".", ".", ".">>
NotAvailable == <<"N", "/", "A">>

\* The content_preview that keeps the whole text.
ContentPreviewUncut(page_content) == page_content \o Ellipsis

\* doc.page_content[:200] + "..."
ContentPreview(page_content) ==
    Prefix(page_content, PreviewLength) \o Ellipsis

\* One entry of "sources"
Citation(doc) ==
    [filename |-> doc.filename,
     page |-> doc.page,
     section |-> IF doc.section.some THEN doc.section.text
                 ELSE NotAvailable,
     document_type |-> doc.document_type,
     content_preview |-> ContentPreview(doc.page_content)]

\* "sources": one entry for each of result["source_documents"], in order
FormatSources(source_documents) ==
    [i \in 1 .. Len(source_documents) |-> Citation(source_documents[i])]

\* ------------------------------------------------------- texts under test
\* Phrases a credit document may hold, in several spellings.
TypeWords ==
    {<<"C", "o", "m", "p", "l", "i", "a", "n", "c", "e", " ", "C", "e", "r",
        "t", "i", "f", "i", "c", "a", "t", "e">>,
     <<"C", "R", "E", "D", "I", "T", " ", "A", "G", "R", "E", "E", "M", "E",
         "N", "T">>,
     <<"L", "o", "a", "n", " ", "A", "g", "r", "e", "e", "m", "e", "n", "t">>,
     CreditApplicationPhrase,
     <<"L", "S", "T", "A">>,
     <<"a", "g", "r", "e", "e", "m", "e", "n", "t", " ", "o", "f", " ", "t",
         "h", "e", " ", "B", "o", "r", "r", "o", "w", "e", "r">>,
     <<"C", "r", "e", "d", "i", "t", " ", " ", "A", "g", "r", "e", "e", "m",
         "e", "n", "t">>}

\* Up to MaxWords phrases on one line.
TypeTexts ==
    {Join(ws, <<" ">>) :
        ws \in UNION {[1 .. n -> TypeWords] : n \in 1 .. MaxWords}}

\* Section and article headings, and near misses of them.
SectionMarks ==
    {<<"S", "E", "C", "T", "I", "O", "N", " ", "7", ".", "1">>,
     <<"S", "e", "c", "t", "i", "o", "n", " ", " ", "1", "2">>,
     <<"A", "R", "T", "I", "C", "L", "E", " ", "I", "V">>,
     <<"A", "r", "t", "i", "c", "l", "e", " ", "3">>,
     <<"S", "e", "c", "t", "i", "o", "n", "\n", "5", ".">>,
     <<"S", "E", "C", "T", "I", "O", "N", " ", "s", "e", "v", "e", "n">>,
     <<"s", "e", "c", "t", "i", "o", "n", " ", "9">>,
     <<"A", "R", "T", "I", "C", "L", "E", "I", "X">>}

Pad(n) == <<>> \o [i \in 1 .. n |-> "x"]

\* Two headings on a line, at the start of the text or near the end of
\* the part _extract_section_info looks at.
SectionTexts ==
    {Pad(n) \o m1 \o <<" ">> \o m2 :
        n \in {0, SectionScan - 20, SectionScan - 9, SectionScan - 5},
        m1 \in SectionMarks, m2 \in SectionMarks}

\* Blank and short pages, and pages of two to MaxParas paragraphs.
ShortTexts ==
    {<<>>, <<" ">>, <<"\n", "\n">>, <<" ", "a">>, <<"a", " ", "b">>, <<"a",
        "\n", "\n", "b", "\n">>}

ParagraphTexts ==
    {Join([i \in 1 .. n |-> Pad(m)], <<"\n", "\n">>) :
        n \in 2 .. MaxParas, m \in {ChunkOverlap - 10, ChunkSize - 500}}

SplitTexts == ShortTexts \cup ParagraphTexts

\* Headings that name a document type, a section, or both.
Headings ==
    {<<"C", "o", "m", "p", "l", "i", "a", "n", "c", "e", " ", "C", "e", "r",
        "t", "i", "f", "i", "c", "a", "t", "e">>,
     <<"S", "e", "c", "t", "i", "o", "n", " ", "7", ".", "2", " ", "o", "f",
         " ", "t", "h", "e", " ", "C", "r", "e", "d", "i", "t", " ", "A",
         "g", "r", "e", "e", "m", "e", "n", "t">>,
     <<"A", "R", "T", "I", "C", "L", "E", " ", "I", "V">>}

\* A paragraph with heading h behind lead characters of filling.
HeadedParagraph(lead, h) ==
    Pad(lead) \o h \o <<" ">> \o Pad(ChunkSize - 500 - lead)

\* Pages of two headed paragraphs too long to share a chunk, each heading
\* at the start of its paragraph or behind the part of it that
\* _extract_section_info looks at.
HeadedTexts ==
    {HeadedParagraph(l1, h1) \o <<"\n", "\n">> \o HeadedParagraph(l2, h2) :
        l1 \in {0, SectionScan}, h1 \in Headings,
        l2 \in {0, SectionScan}, h2 \in Headings}

Texts == TypeTexts \cup SectionTexts \cup SplitTexts \cup HeadedTexts

\* --------------------------------------------- applying the text functions
InitText ==
    /\ InitIndex
    /\ text \in Texts
    /\ result = NoResult
    /\ calls = NoCalls
    /\ builds = NoBuilds

\* doc_type = self._identify_document_type(text)
Classify ==
    /\ result = NoResult
    /\ result' = [fn |-> "classify", value |-> IdentifyDocumentType(text)]
    /\ UNCHANGED <<indexVars, text, calls, builds>>

\* section_info = self._extract_section_info(chunk.page_content)
ExtractSection ==
    /\ result = NoResult
    /\ result' = [fn |-> "section", value |-> ExtractSectionInfo(text)]
    /\ UNCHANGED <<indexVars, text, calls, builds>>

\* _preprocess_documents([doc])
Split ==
    /\ result = NoResult
    /\ result' = [fn |-> "split",
                  value |-> PreprocessDocumentTexts(<<Document(text, 0)>>)]
    /\ UNCHANGED <<indexVars, text, calls, builds>>

\* query(question) on an index built from a file of n pages that each
\* hold the text: what the retriever returns and the "sources" made of it.
Cite(n, emb) ==
    /\ result = NoResult
    /\ n * Len(text) <= MaxFileLen
    /\ LET documents == [i \in 1 .. n |-> Document(text, i - 1)]
           processed_docs == PreprocessDocumentTexts(documents)
           source_documents == Retrieve(FromDocuments(processed_docs, emb))
       IN /\ processed_docs # <<>>
          /\ result' = [fn |-> "query",
                        chunks |-> Len(processed_docs),
                        source_documents |-> source_documents,
                        sources |-> FormatSources(source_documents)]
    /\ UNCHANGED <<indexVars, text, calls, builds>>

DoCite == \E n \in 1 .. MaxPages, emb \in Models : Cite(n, emb)

NextText ==
    \/ Classify
    \/ ExtractSection
    \/ Split
    \/ DoCite

SpecText == InitText /\ [][NextText]_vars

\* ---------------------------------------------------------------- claims
Handlers == {"init", "query", "manual_refresh"}

\* The service is Stale: the staleness check of a query asks for a rebuild.
Stale == last_refresh # None /\ now - last_refresh >= refresh_interval

\* The service is Fresh.
Fresh == last_refresh # None /\ now - last_refresh < refresh_interval

\* The persisted index is absent, or a complete index of one build.
PersistedWhole == persisted.intact /\ (persisted.faiss <=> persisted.pkl)

\* An index built from what the documents directory holds.
BuiltFromDirectory(store) ==
    \E documents \in LoadDocuments(docs, {}) :
        store = FromDocuments(PreprocessDocuments(documents),
                              embedding_model)

\* C1: query never raises to its caller: whatever fails during the
\* staleness check and rebuild, the retrieval or the answer generation, it
\* returns a result, and a result that reports an error has no sources.
C1_QueryNeverRaises ==
    op = "query" =>
        /\ ~raised
        /\ response.kind \in {"ok", "error"}
        /\ (response.kind = "error" => response.sources = <<>>)

\* C2: constructing the service over an empty documents directory with no
\* persisted index only warns: no index is created, in memory or persisted,
\* and the instance exists and is usable.
C2_EmptyStartIsUsable ==
    (op = "init" /\ outcome = "empty" /\ ~persisted.faiss) =>
        (~raised /\ svc = "up" /\ ~persisted.pkl)

\* C3: a refresh attempt that fails (the loader raises, no documents are
\* found, the build or the save raises) leaves last_refresh unchanged, so a
\* query that found the service Stale leaves it Stale: the next staleness
\* check asks for the rebuild again.
C3_FailedRefreshKeepsLastRefresh ==
    [][(op' \in Handlers
         /\ outcome' \in {"empty", "load_error", "build_error", "save_error"})
        => /\ last_refresh' = last_refresh
           /\ (op' = "query" => Stale')]_vars

C3_Witness ==
    /\ op = "query"
    /\ outcome = "save_error"
    /\ raised
    /\ Stale
    /\ last_refresh < now

\* C4: a query issued while Stale makes exactly one rebuild attempt, and
\* when the rebuild succeeds the retriever is bound to the index just built
\* from the directory, the query is answered from it and the service is
\* Fresh; the passing of time alone rebuilds nothing.
C4_StaleQueryRebuildsOnce ==
    [][/\ (op' = "query" /\ Stale) =>
            /\ attempts' = 1
            /\ (outcome' = "ok" =>
                    /\ BuiltFromDirectory(vector_store')
                    /\ qa_chain' = vector_store'
                    /\ persisted'.content = vector_store'.content
                    /\ (response'.kind = "ok" =>
                            response'.sources = Retrieve(vector_store'))
                    /\ last_refresh' = now'
                    /\ Fresh')
       /\ (now' # now =>
            /\ attempts' = 0
            /\ UNCHANGED <<vector_store, qa_chain, persisted,
                           last_refresh>>)]_vars

C4_Witness ==
    /\ op = "query"
    /\ attempts = 1
    /\ outcome = "ok"
    /\ response.kind = "ok"
    /\ response.sources = vector_store.content
    /\ Len(response.sources) = 2
    /\ last_refresh = now
    /\ now > 0

\* C5: last_refresh of a running instance is changed only by a step that
\* completes a successful rebuild; the startup load of a persisted index,
\* a query, a failed or an empty refresh do not set it.
C5_OnlyRebuildSetsLastRefresh ==
    [][(svc' = "up" /\ last_refresh' # last_refresh)
        => (attempts' = 1 /\ outcome' = "ok")]_vars

\* C6: the persisted index is never partially written: in every reachable
\* state it is absent or a complete index of one build.
C6_PersistedNeverPartial == PersistedWhole

\* C7: a refresh that finds no documents changes neither the in-memory
\* index nor the persisted index nor last_refresh.
C7_EmptyRefreshIsNoOp ==
    [][(op' \in Handlers /\ outcome' \in {"empty", "load_error"})
        => UNCHANGED <<vector_store, persisted, last_refresh>>]_vars

C7_Witness ==
    /\ op = "manual_refresh"
    /\ outcome = "empty"
    /\ docs = {}
    /\ vector_store.set
    /\ Len(vector_store.content) = 2
    /\ persisted.faiss
    /\ last_refresh < now

C9_BadFileDoesNotAbortBatch ==
    [][\A bad \in SUBSET docs :
         \A documents \in LoadDocuments(docs, bad) :
            ManualRefresh(bad, documents, "none")
               => (docs \ bad) \subseteq Range(vector_store'.content)]_vars

\* C10: manual_refresh attempts a rebuild whatever the time since
\* last_refresh; when documents are found and build and save succeed, the
\* service is Fresh with last_refresh the completion time, and the
\* retriever that serves the next queries is bound to the rebuilt index.
C10_ManualRefreshAlwaysRebuilds ==
    [][op' = "manual_refresh" =>
        /\ attempts' = 1
        /\ \A documents \in LoadDocuments(docs, {}) :
             (documents # <<>> /\ ManualRefresh({}, documents, "none"))
                => outcome' = "ok"
        /\ (outcome' = "ok" =>
              /\ BuiltFromDirectory(vector_store')
              /\ qa_chain' = vector_store'
              /\ persisted'.content = vector_store'.content
              /\ PersistedWhole'
              /\ last_refresh' = now'
              /\ Fresh')]_vars

C10_Witness ==
    /\ op = "manual_refresh"
    /\ outcome = "ok"
    /\ last_refresh = now
    /\ now > 0
    /\ qa_chain = vector_store
    /\ Len(vector_store.content) = 2

\* C11: embedding-space consistency: whenever a running instance can
\* answer a query, the vectors of the index its retriever searches were
\* produced by the embedding model the instance embeds the query with,
\* also when the index was loaded from files an earlier run wrote.
C11_EmbeddingSpaceConsistent ==
    (svc = "up" /\ qa_chain.set) => qa_chain.model = embedding_model

\* C18: rebuild is repeatable: of two consecutive successful manual
\* refreshes with no change to the documents directory between them, the
\* second leaves an index with the content of the first (same chunks,
\* same order), in memory and persisted.
C18_RebuildRepeatable ==
    [][(/\ op = "manual_refresh" /\ outcome = "ok"
        /\ op' = "manual_refresh" /\ outcome' = "ok"
        /\ docs' = docs)
        => /\ vector_store'.content = vector_store.content
           /\ persisted'.content = persisted.content]_vars

\* C20: a query issued while Fresh attempts no rebuild (so loads no
\* documents) and leaves the in-memory index, the persisted index, the
\* retriever binding and last_refresh unchanged, whether it returns an
\* answer or an error result.
C20_FreshQueryChangesNothing ==
    [][(op' = "query" /\ Fresh) =>
        /\ attempts' = 0
        /\ outcome' = "none"
        /\ ~raised'
        /\ response'.kind \in {"ok", "error"}
        /\ UNCHANGED <<vector_store, persisted, qa_chain, last_refresh>>]_vars

C20_Witness ==
    /\ op = "query"
    /\ Fresh
    /\ attempts = 0
    /\ response.kind = "error"
    /\ docs # {}
    /\ docs # Range(vector_store.content)
    /\ last_refresh = now

\* Two characters that differ at most in case.
SameIgnoringCase(a, b) ==
    \/ a = b
    \/ \E i \in 1 .. Len(UpperCase) :
          {a, b} = {UpperCase[i], LowerCase[i]}

\* The phrase occurs in t, ignoring case.
OccursIgnoringCase(phrase, t) ==
    \E i \in 1 .. Len(t) - Len(phrase) + 1 :
        \A j \in 1 .. Len(phrase) : SameIgnoringCase(t[i + j - 1], phrase[j])

\* The label of the first rule of a priority-ordered table, one of whose
\* phrases occurs in t ignoring case; the default label when none does.
FirstRule(rules, t) ==
    LET hits == {i \in 1 .. Len(rules) :
                    \E p \in rules[i].phrases : OccursIgnoringCase(p, t)}
    IN IF hits = {} THEN "Credit Document"
       ELSE rules[CHOOSE i \in hits : \A k \in hits : i <= k].label

\* The rule table with one key phrase per label.
KeyPhraseRules ==
    <<[label |-> "Compliance Certificate",
       phrases |-> {ComplianceCertificatePhrase}],
      [label |-> "Credit Agreement", phrases |-> {CreditAgreementPhrase}],
      [label |-> "Credit Application", phrases |-> {CreditApplicationPhrase}],
      [label |-> "LSTA Agreement", phrases |-> {LstaPhrase}]>>

\* The same table, 'loan agreement' being a second phrase of the Credit
\* Agreement rule.
LoanAgreementRules ==
    [KeyPhraseRules EXCEPT
        ![2].phrases = {CreditAgreementPhrase, LoanAgreementPhrase}]

\* C14 (as stated): the document type is the label of the first rule, in
\* the order Compliance Certificate > Credit Agreement > Credit Application
\* > LSTA Agreement, whose key phrase ('compliance certificate', 'credit
\* agreement', 'credit application', 'lsta') occurs in the text ignoring
\* case, and 'Credit Document' exactly when none occurs.
C14_ClassifiesByKeyPhrase ==
    result.fn = "classify" => result.value = FirstRule(KeyPhraseRules, text)

\* C14 (amended): the same, the Credit Agreement rule matching 'credit
\* agreement' or 'loan agreement'.
C14_ClassifiesByRuleTable ==
    result.fn = "classify"
        => result.value = FirstRule(LoanAgreementRules, text)

C14_Witness ==
    /\ result.fn = "classify"
    /\ result.value = "Credit Agreement"
    /\ OccursIgnoringCase(LoanAgreementPhrase, text)
    /\ OccursIgnoringCase(CreditApplicationPhrase, text)
    /\ ~OccursIgnoringCase(CreditAgreementPhrase, text)
    /\ ~Occurs(LoanAgreementPhrase, text)

\* s is a number as pattern p takes it: digits with at most one point
\* after the first digit, or roman numerals only, or digits only.
IsNumber(s, p) ==
    /\ s # <<>>
    /\ IF p.number = "decimal"
       THEN /\ s[1] \in DigitChars
            /\ \A i \in 1 .. Len(s) : s[i] \in DigitChars \cup {"."}
            /\ Cardinality({i \in 1 .. Len(s) : s[i] = "."}) <= 1
       ELSE \/ \A i \in 1 .. Len(s) : s[i] \in RomanChars
            \/ \A i \in 1 .. Len(s) : s[i] \in DigitChars

\* s as a whole is a match of pattern p: keyword, whitespace, number.
IsMatch(s, p) ==
    /\ StartsAt(s, 1, p.keyword)
    /\ \E k \in Len(p.keyword) + 1 .. Len(s) - 1 :
          /\ \A j \in Len(p.keyword) + 1 .. k : s[j] \in Whitespace
          /\ IsNumber(SubSeq(s, k + 1, Len(s)), p)

\* Some part of t that starts at i is a match of pattern p.
MatchesAt(t, i, p) ==
    /\ StartsAt(t, i, p.keyword)
    /\ \E e \in i + Len(p.keyword) + 1 .. Len(t) :
          IsMatch(SubSeq(t, i, e), p)

HasMatch(t, p) == \E i \in 1 .. Len(t) : MatchesAt(t, i, p)

\* C15: the section label is taken from the first 500 characters only: it
\* is the whole (leftmost, longest) match of the first pattern, in the
\* order SECTION, Section, ARTICLE, Article, that has a match in that
\* prefix, wherever in the prefix the patterns match; none when no pattern
\* matches there; and text after character 500 does not change it.
C15_SectionFromFirstPattern ==
    result.fn = "section" =>
        LET head == Prefix(text, SectionScan)
            found == result.value
            first == {p \in 1 .. Len(Patterns) :
                         /\ HasMatch(head, Patterns[p])
                         /\ \A q \in 1 .. p - 1 :
                               ~HasMatch(head, Patterns[q])}
        IN /\ found.some <=> first # {}
           /\ ~found.some => found = NoMatch
           /\ found.some =>
                \E p \in first, i \in 1 .. Len(head) :
                    LET e == i + Len(found.text) - 1
                    IN /\ StartsAt(head, i, found.text)
                       /\ IsMatch(found.text, Patterns[p])
                       /\ \A g \in 1 .. i - 1 :
                             ~MatchesAt(head, g, Patterns[p])
                       /\ \A x \in e + 1 .. Len(head) :
                             ~IsMatch(SubSeq(head, i, x), Patterns[p])
           /\ found = ExtractSectionInfo(head)
           /\ Len(head) = SectionScan =>
                found = ExtractSectionInfo(head \o Patterns[1].keyword
                                                \o <<" ", "1">>)

\* A later pattern matches first in the text, an earlier pattern matches
\* behind it, cut short by the end of the prefix.
C15_Witness ==
    /\ result.fn = "section"
    /\ result.value.some
    /\ Len(text) > SectionScan
    /\ StartsAt(result.value.text, 1, Patterns[1].keyword)
    /\ HasMatch(Prefix(text, SectionScan), Patterns[3])
    /\ StartsAt(text, SectionScan - Len(result.value.text) + 1,
                result.value.text)
    /\ text[SectionScan + 1] \in DigitChars \cup {"."}

\* C12: a query result holds one citation for each retrieved chunk, in
\* the order of retrieval, and at most 6 of them (k = 6): as many as the
\* index has chunks when it has fewer than 6.
C12_OneCitationPerRetrievedChunk ==
    result.fn = "query" =>
        /\ Len(result.sources) = Len(result.source_documents)
        /\ Len(result.sources) <= K
        /\ Len(result.sources) = Min(K, result.chunks)
        /\ \A i \in 1 .. Len(result.sources) :
              LET cited == result.sources[i]
                  chunk == result.source_documents[i]
              IN /\ cited.filename = chunk.filename
                 /\ cited.page = chunk.page
                 /\ cited.document_type = chunk.document_type
                 /\ chunk.section.some => cited.section = chunk.section.text
                 /\ StartsAt(cited.content_preview, 1,
                             Prefix(chunk.page_content, PreviewLength))

C12_Witness ==
    /\ result.fn = "query"
    /\ result.chunks > K
    /\ Len(result.sources) = K
    /\ \A i \in 1 .. K : result.sources[i].page = i - 1

\* C13 (as stated): content_preview is the chunk's content cut to its
\* first 200 characters: never longer than 200 characters, and the content
\* itself when that is at most 200 characters long.
C13_PreviewIsTruncatedContent ==
    result.fn = "query" =>
        \A i \in 1 .. Len(result.sources) :
            LET preview == result.sources[i].content_preview
                content == result.source_documents[i].page_content
            IN /\ Len(preview) <= PreviewLength
               /\ Len(content) <= PreviewLength => preview = content

\* C13 (amended): content_preview is the chunk's first 200 characters (all
\* of it when it has no more) followed by "...": never longer than 203
\* characters.
C13_PreviewIsPrefixThenEllipsis ==
    result.fn = "query" =>
        \A i \in 1 .. Len(result.sources) :
            LET preview == result.sources[i].content_preview
                content == result.source_documents[i].page_content
                cut == Min(Len(content), PreviewLength)
            IN /\ Len(preview) = cut + Len(Ellipsis)
               /\ Len(preview) <= PreviewLength + 3
               /\ SubSeq(preview, 1, cut) = SubSeq(content, 1, cut)
               /\ SubSeq(preview, cut + 1, Len(preview)) = <<".", ".", ".">>

C13_Witness ==
    /\ result.fn = "query"
    /\ \E i \in 1 .. Len(result.sources) :
          /\ Len(result.source_documents[i].page_content) > PreviewLength
          /\ Len(result.sources[i].content_preview) = PreviewLength + 3

\* The positions up to which the first k chunks, laid over the text in
\* order, each at a place where it occurs and none leaving a gap after the
\* one before, cover the text.
RECURSIVE CoveredUpTo(_, _, _)
CoveredUpTo(t, chunks, k) ==
    IF k = 0 THEN {0}
    ELSE LET c == chunks[k].page_content
         IN UNION {{p + Len(c) - 1 :
                      p \in {q \in 1 .. r + 1 :
                                /\ q + Len(c) - 1 >= r
                                /\ StartsAt(t, q, c)}} :
                   r \in CoveredUpTo(t, chunks, k - 1)}

\* C16: chunk coverage: the chunks of a text, put together with the
\* overlaps taken once, are the text: every character of it is in some
\* chunk.
C16_ChunksReconstructText ==
    result.fn = "split" =>
        Len(text) \in CoveredUpTo(text, result.value, Len(result.value))

\* C17: a document whose text is shorter than the chunk size, an empty or
\* whitespace-only page included, yields exactly one chunk, with chunk_id
\* 0 and total_chunks 1.
C17_ShortDocumentIsOneChunk ==
    (result.fn = "split" /\ Len(text) < ChunkSize) =>
        /\ Len(result.value) = 1
        /\ result.value[1].chunk_id = 0
        /\ result.value[1].total_chunks = 1

\* C21: in every reachable state of a running instance, also after a
\* refresh that failed part-way (the index built, the save raising), the
\* retriever of qa_chain is bound to the index held in vector_store.
C21_RetrieverBoundToCurrentIndex ==
    svc = "up" => qa_chain = vector_store

\* C22: a query that finds the index Stale and whose rebuild finds no
\* documents (empty directory or loader error) makes that one attempt,
\* does not raise, and is answered by the chain over the index the
\* instance held before it (vector_store, unchanged like the persisted
\* index and last_refresh); the service is still Stale afterwards, stays
\* Stale until a rebuild succeeds, and every query of a Stale service
\* attempts the rebuild again.
C22_EmptyRebuildServesPriorIndex ==
    [][/\ (op' = "query" /\ Stale /\ outcome' \in {"empty", "load_error"})
            => /\ attempts' = 1
               /\ ~raised'
               /\ UNCHANGED <<vector_store, persisted, last_refresh>>
               /\ qa_chain' = vector_store
               /\ response' \in {QueryResponse(vector_store, chainRaises) :
                                    chainRaises \in BOOLEAN}
               /\ Stale'
       /\ (Stale /\ svc' = "up" /\ ~(attempts' = 1 /\ outcome' = "ok"))
            => Stale'
       /\ (op' = "query" /\ Stale) => attempts' = 1]_vars

C22_Witness ==
    /\ op = "query"
    /\ outcome = "empty"
    /\ attempts = 1
    /\ docs = {}
    /\ Stale
    /\ response.kind = "ok"
    /\ Len(response.sources) = 2
    /\ response.sources = vector_store.content

\* C23: a constructed instance, after any sequence of query and
\* manual_refresh calls, has vector_store, qa_chain and last_refresh set:
\* it is never in the NoIndex state, and the branch of the staleness check
\* for last_refresh = None is never taken.
C23_ConstructedInstanceHasIndex ==
    svc = "up" =>
        /\ vector_store.set
        /\ qa_chain.set
        /\ last_refresh # None

C23_Witness ==
    /\ svc = "up"
    /\ op = "manual_refresh"
    /\ outcome = "build_error"
    /\ raised
    /\ vector_store.set
    /\ qa_chain.set
    /\ last_refresh # None
    /\ last_refresh < now

\* C24: a successful rebuild replaces the whole index: after it the
\* in-memory index and the persisted index hold exactly the chunks of the
\* documents that rebuild loaded, each once, and no chunk of an earlier
\* build (the chunks of files removed from the directory are gone).
C24_RebuildReplacesWholeIndex ==
    [][(op' \in Handlers /\ attempts' = 1 /\ outcome' = "ok") =>
        /\ vector_store'.content \in
              {PreprocessDocuments(documents) :
                  documents \in LoadDocuments(docs, {})}
        /\ Range(vector_store'.content) = docs
        /\ Len(vector_store'.content) = Cardinality(docs)
        /\ \A f \in Range(vector_store.content) \cup Range(persisted.content) :
              f \notin docs => f \notin Range(vector_store'.content)
                               /\ f \notin Range(persisted'.content)
        /\ persisted'.faiss /\ persisted'.pkl /\ persisted'.intact
        /\ persisted'.content = vector_store'.content]_vars

\* A rebuild of an instance that already held an index has succeeded
\* over a directory of one file.
C24_Witness ==
    /\ op = "manual_refresh"
    /\ attempts = 1
    /\ outcome = "ok"
    /\ docs = {2}
    /\ vector_store.content = <<2>>
    /\ persisted.content = <<2>>
    /\ last_refresh = now
    /\ now > 0

\* C26: metadata enrichment: every chunk of a loaded document carries the
\* document type of the document's full text (the same for all its
\* chunks, whatever the chunk's own text says), chunk_id and total_chunks
\* with 0 <= chunk_id < total_chunks, chunk_ids counting up from 0 in
\* chunk order, and a section label exactly when one of the patterns
\* matches in the chunk's own first 500 characters.
C26_ChunksCarryDocumentMetadata ==
    /\ result.fn = "split" =>
        LET chunks == result.value
        IN \A i \in 1 .. Len(chunks) :
              LET head == Prefix(chunks[i].page_content, SectionScan)
              IN /\ chunks[i].document_type
                        = FirstRule(LoanAgreementRules, text)
                 /\ chunks[i].document_type = chunks[1].document_type
                 /\ chunks[i].total_chunks = Len(chunks)
                 /\ chunks[i].chunk_id = i - 1
                 /\ 0 <= chunks[i].chunk_id
                 /\ chunks[i].chunk_id < chunks[i].total_chunks
                 /\ chunks[i].section.some
                        <=> \E p \in 1 .. Len(Patterns) :
                               HasMatch(head, Patterns[p])
                 /\ chunks[i].section.some
                        => \E g \in 1 .. Len(head) :
                              StartsAt(head, g, chunks[i].section.text)
    /\ result.fn = "query" =>
        \A i \in 1 .. Len(result.source_documents) :
            LET chunk == result.source_documents[i]
            IN /\ chunk.document_type = FirstRule(LoanAgreementRules, text)
               /\ 0 <= chunk.chunk_id
               /\ chunk.chunk_id < chunk.total_chunks

\* A document of two chunks: the second, on its own, reads as a Credit
\* Agreement and has its label Section 7.2; the document is a Compliance
\* Certificate, and the first chunk's heading lies behind character 500.
C26_Witness ==
    /\ result.fn = "split"
    /\ Len(result.value) = 2
    /\ result.value[1].document_type = "Compliance Certificate"
    /\ result.value[2].document_type = "Compliance Certificate"
    /\ IdentifyDocumentType(result.value[2].page_content)
          = "Credit Agreement"
    /\ ~result.value[1].section.some
    /\ result.value[2].section.some
    /\ result.value[2].section.text = <<"S", "e", "c", "t", "i", "o", "n",
                                         " ", "7", ".", "2">>
    /\ result.value[2].chunk_id = 1

\* C25: with queries and refreshes running concurrently on one instance,
\* every retrieval is answered from one complete index (the old one or
\* the new one), and rebuilds do not interleave their writes to the
\* persisted index: no caller writes a file of it while another caller is
\* between its writes of index.faiss and index.pkl, so that the files are
\* of one index whenever no save is in progress.
C25_ConcurrentRebuildsIsolated ==
    /\ qa_chain.set /\ qa_chain.intact
    /\ vector_store.set /\ vector_store.intact
    /\ Cardinality({c \in Callers : calls[c].pc = "save_pkl"}) <= 1
    /\ (\A c \in Callers : calls[c].pc \notin {"save_faiss", "save_pkl"})
          => (builds.faiss = builds.pkl /\ persisted.intact)

====
